---- MODULE Spec2Model ----
(***************************************************************************)
(* A model of dtyper: the signature normalizer (_fixed_signature), the     *)
(* callable rebinder (function, Typer.command) and the record synthesizer  *)
(* (dataclass).                                                            *)
(*                                                                         *)
(* A session fixes one typer command (a parameter list), then rebinds it,  *)
(* calls the rebound callable, or synthesizes record types from it and     *)
(* constructs and invokes their instances.                                 *)
(*                                                                         *)
(* Input domain.  A typer command is invoked by typer with every parameter *)
(* passed by keyword, so its parameters are positional-or-keyword or       *)
(* keyword-only; *args / **kwargs / positional-only parameters are not     *)
(* drawn.  A descriptor's inner default is a real value or the required    *)
(* sentinel (Ellipsis), never another descriptor.  Keyword arguments of a  *)
(* call are written in declaration order.                                  *)
(***************************************************************************)
EXTENDS Integers, Sequences, FiniteSets, TLC

\* ---------------------------------------------------------------- bounds
MaxParams == 2

\* ------------------------------------------------------------ value space
\* Every runtime value is a record [cls, v]: a real value, a typer
\* descriptor (models.ArgumentInfo / models.OptionInfo, whose attribute
\* `default` is v), or inspect.Parameter.empty.
Value(v) == [cls |-> "value", v |-> v]
Argument(v) == [cls |-> "ArgumentInfo", v |-> v]
Option(v) == [cls |-> "OptionInfo", v |-> v]
Empty == [cls |-> "empty", v |-> "-"]
Ellipsis == Value("Ellipsis")

IsDescriptor(d) == d.cls \in {"ArgumentInfo", "OptionInfo"}

\* the defaults a command's author can write for one parameter
DeclaredDefaults ==
    {Empty, Value("None"), Ellipsis,
     Argument("Ellipsis"), Argument("keys"),
     Option("Ellipsis"), Option("None")}

POSITIONAL_OR_KEYWORD == "POSITIONAL_OR_KEYWORD"
KEYWORD_ONLY == "KEYWORD_ONLY"
Kinds == {POSITIONAL_OR_KEYWORD, KEYWORD_ONLY}

\* inspect's _ParameterKind is an IntEnum; only its order matters
KindRank(k) == IF k = POSITIONAL_OR_KEYWORD THEN 1 ELSE 3

ParamNames == <<"bucket", "keys", "pid", "pod">>
Annotations == <<"str", "str", "Optional[int]", "Optional[int]">>

\* the keywords a caller may write, in the order they are written: the
\* parameter names, then one name no command declares
KeywordNames == ParamNames \o <<"frog">>
\* the values a caller supplies: one per positional slot, one per keyword
PosVals == <<"a1", "a2", "a3", "a4", "a5">>
KwVals == <<"k1", "k2", "k3", "k4", "k5">>

Names(params) == {params[i].name : i \in 1..Len(params)}
IndexOf(params, n) == CHOOSE i \in 1..Len(params) : params[i].name = n

Min(S) == CHOOSE x \in S : \A y \in S : x <= y

\* A `def` the Python compiler accepts: kinds in order, and among the
\* positional parameters none without a default after one with a default
\* (a descriptor is a default like any other).
IsPythonDef(params) ==
    /\ \A i \in 1..Len(params) : \A j \in 1..Len(params) :
         i < j => KindRank(params[i].kind) <= KindRank(params[j].kind)
    /\ \A i \in 1..Len(params) : \A j \in 1..Len(params) :
         (/\ i < j
          /\ params[j].kind = POSITIONAL_OR_KEYWORD
          /\ params[i].default # Empty) => params[j].default # Empty

CommandsOfLen(n) ==
    {params \in [1..n -> [name : {ParamNames[i] : i \in 1..n},
                          annotation : {Annotations[i] : i \in 1..n},
                          kind : Kinds,
                          default : DeclaredDefaults]] :
        /\ \A i \in 1..n : /\ params[i].name = ParamNames[i]
                           /\ params[i].annotation = Annotations[i]
        /\ IsPythonDef(params)}

Commands == UNION {CommandsOfLen(n) : n \in 1..MaxParams}

\* --------------------------------------------------------------- errors
Exc(cls, msg, arg) == [cls |-> cls, msg |-> msg, arg |-> arg]
NoExc == Exc("none", "", "")


\* ------------------------------------------------- Signature Normalizer
\* inspect.Signature(parameters) validates the list it is given: kinds in
\* order and no positional parameter without a default after one with a
\* default.  sig.replace(parameters=...) goes through it.
SignatureError(params) ==
    LET n == Len(params)
        kindBad(j) == \E i \in 1..(j - 1) :
                         KindRank(params[j].kind) < KindRank(params[i].kind)
        defaultBad(j) == /\ params[j].kind = POSITIONAL_OR_KEYWORD
                         /\ params[j].default = Empty
                         /\ \E i \in 1..(j - 1) :
                               /\ params[i].kind = POSITIONAL_OR_KEYWORD
                               /\ params[i].default # Empty
        bad == {j \in 1..n : kindBad(j) \/ defaultBad(j)}
    IN  IF bad = {} THEN NoExc
        ELSE IF kindBad(Min(bad))
             THEN Exc("ValueError", "wrong parameter order",
                      params[Min(bad)].name)
             ELSE Exc("ValueError",
                      "non-default argument follows default argument",
                      params[Min(bad)].name)

\* fix_param: the kind, then the default
\* (variant: the kind is never forced)
FixKind_keeps_kind(p) == p.kind

FixKind(p) ==
    IF p.default.cls = "OptionInfo" THEN KEYWORD_ONLY ELSE p.kind

\* (variant: Ellipsis stays a default)
FixDefault_keeps_ellipsis(p) ==
    IF IsDescriptor(p.default) THEN Value(p.default.v) ELSE p.default

\* (variant: a default without .default is dropped)
FixDefault_drops_plain(p) ==
    IF ~IsDescriptor(p.default) \/ p.default.v = "Ellipsis" THEN Empty
    ELSE Value(p.default.v)

FixDefault(p) ==
    LET default == IF IsDescriptor(p.default) THEN Value(p.default.v)
                   ELSE p.default
    IN  IF default = Ellipsis THEN Empty ELSE default

fix_param(p) ==
    [name |-> p.name, annotation |-> p.annotation,
     kind |-> FixKind(p), default |-> FixDefault(p)]

FixedParameters(params) == [i \in 1..Len(params) |-> fix_param(params[i])]

\* _fixed_signature(typer_command), given inspect.signature(typer_command):
\* the normalized parameter list, or the ValueError of sig.replace
fixed_signature(params) ==
    LET parameters == FixedParameters(params)
        e == SignatureError(parameters)
    IN  [exc |-> e,
         parameters |-> IF e = NoExc THEN parameters ELSE <<>>]

\* ------------------------------------------------ binding (inspect)
NoArguments == [n \in {} |-> Empty]

\* Signature.bind(*args, **kwargs): the positional arguments first, then
\* the remaining parameters against the keywords, then the keywords left.
SigBind(sig, args, kwargs) ==
    LET n == Len(sig)
        k == Len(args)
        posBad == {i \in 1..k : \/ i > n
                                \/ sig[i].kind = KEYWORD_ONLY
                                \/ sig[i].name \in DOMAIN kwargs}
        missing == {j \in (k + 1)..n : /\ sig[j].name \notin DOMAIN kwargs
                                       /\ sig[j].default = Empty}
        extra == {i \in 1..Len(KeywordNames) :
                     /\ KeywordNames[i] \in DOMAIN kwargs
                     /\ KeywordNames[i] \notin Names(sig)}
        e == IF posBad # {}
             THEN IF Min(posBad) > n \/ sig[Min(posBad)].kind = KEYWORD_ONLY
                  THEN Exc("TypeError", "too many positional arguments", "")
                  ELSE Exc("TypeError", "multiple values for argument",
                           sig[Min(posBad)].name)
             ELSE IF missing # {}
             THEN Exc("TypeError", "missing a required argument",
                      sig[Min(missing)].name)
             ELSE IF extra # {}
             THEN Exc("TypeError", "got an unexpected keyword argument",
                      KeywordNames[Min(extra)])
             ELSE NoExc
        bound == {sig[i].name : i \in 1..k} \cup (Names(sig) \cap DOMAIN kwargs)
    IN  [exc |-> e,
         arguments |-> IF e # NoExc THEN NoArguments
                       ELSE [nm \in bound |->
                               IF IndexOf(sig, nm) <= k
                               THEN args[IndexOf(sig, nm)]
                               ELSE kwargs[nm]]]

\* BoundArguments.apply_defaults()
apply_defaults(sig, arguments) ==
    LET have == DOMAIN arguments \cup
                {sig[i].name : i \in {j \in 1..Len(sig) : sig[j].default # Empty}}
    IN  [nm \in have |-> IF nm \in DOMAIN arguments THEN arguments[nm]
                         ELSE sig[IndexOf(sig, nm)].default]

\* the index at which BoundArguments stops filling args and starts kwargs
KwargsStart(sig, arguments) ==
    LET stop == {i \in 1..Len(sig) : \/ sig[i].kind = KEYWORD_ONLY
                                     \/ sig[i].name \notin DOMAIN arguments}
    IN  IF stop = {} THEN Len(sig) + 1 ELSE Min(stop)

\* BoundArguments.args
BoundArgs(sig, arguments) ==
    [i \in 1..(KwargsStart(sig, arguments) - 1) |-> arguments[sig[i].name]]

\* BoundArguments.kwargs
BoundKwargs(sig, arguments) ==
    LET names == {sig[i].name : i \in KwargsStart(sig, arguments)..Len(sig)}
                 \cap DOMAIN arguments
    IN  [nm \in names |-> arguments[nm]]

\* ------------------------------------------------ a Python call
\* Calling a Python function whose parameters are `params` (its own
\* defaults fill what the caller leaves out): what each parameter receives,
\* or the TypeError of the call.
PyCall(params, args, kwargs) ==
    LET n == Len(params)
        k == Len(args)
        npos == Cardinality({i \in 1..n : params[i].kind = POSITIONAL_OR_KEYWORD})
        unknown == {i \in 1..Len(KeywordNames) :
                       /\ KeywordNames[i] \in DOMAIN kwargs
                       /\ KeywordNames[i] \notin Names(params)}
        twice == {i \in 1..n : i <= k /\ i <= npos /\ params[i].name \in DOMAIN kwargs}
        missing == {i \in 1..n : /\ i > k
                                 /\ params[i].name \notin DOMAIN kwargs
                                 /\ params[i].default = Empty}
        e == IF unknown # {}
             THEN Exc("TypeError", "got an unexpected keyword argument",
                      KeywordNames[Min(unknown)])
             ELSE IF twice # {}
             THEN Exc("TypeError", "got multiple values for argument",
                      params[Min(twice)].name)
             ELSE IF k > npos
             THEN Exc("TypeError", "too many positional arguments", "")
             ELSE IF missing # {}
             THEN Exc("TypeError", "missing required argument",
                      params[Min(missing)].name)
             ELSE NoExc
    IN  [exc |-> e,
         locals |-> IF e # NoExc THEN NoArguments
                    ELSE [nm \in Names(params) |->
                            IF IndexOf(params, nm) <= k
                            THEN args[IndexOf(params, nm)]
                            ELSE IF nm \in DOMAIN kwargs THEN kwargs[nm]
                            ELSE params[IndexOf(params, nm)].default]]


\* ------------------------------------------------------ Callable Rebinder
\* function.wrapped(*args, **kwargs): bind, apply the defaults, call the
\* original.  invoked counts the runs of the original's body; result is
\* what the original returns: the value each of its parameters received.
\* (variant: the original is called with the arguments as given)
wrapped_direct(sig, typer_command, args, kwargs) ==
    LET r == PyCall(typer_command, args, kwargs)
    IN  [exc |-> r.exc,
         invoked |-> IF r.exc = NoExc THEN 1 ELSE 0,
         result |-> r.locals]

\* (variant: bound.apply_defaults() is left out)
wrapped_no_defaults(sig, typer_command, args, kwargs) ==
    LET bound == SigBind(sig, args, kwargs)
        r == PyCall(typer_command, BoundArgs(sig, bound.arguments),
                    BoundKwargs(sig, bound.arguments))
    IN  IF bound.exc # NoExc
        THEN [exc |-> bound.exc, invoked |-> 0, result |-> NoArguments]
        ELSE [exc |-> r.exc,
              invoked |-> IF r.exc = NoExc THEN 1 ELSE 0,
              result |-> r.locals]

wrapped(sig, typer_command, args, kwargs) ==
    LET bound == SigBind(sig, args, kwargs)
        arguments == apply_defaults(sig, bound.arguments)
        r == PyCall(typer_command, BoundArgs(sig, arguments),
                    BoundKwargs(sig, arguments))
    IN  IF bound.exc # NoExc
        THEN [exc |-> bound.exc, invoked |-> 0, result |-> NoArguments]
        ELSE [exc |-> r.exc,
              invoked |-> IF r.exc = NoExc THEN 1 ELSE 0,
              result |-> r.locals]

\* the arguments a caller can write
CallArgs == {[i \in 1..k |-> Value(PosVals[i])] : k \in 0..(MaxParams + 1)}
CallKwargs(names) ==
    {[nm \in S |-> Value(KwVals[CHOOSE i \in 1..Len(KeywordNames) :
                                   KeywordNames[i] = nm])] :
        S \in SUBSET names}

\* ------------------------------------------------------ Record Synthesizer
\* the classes and functions of a session, by name, and what each class
\* defines
BCommand == "BCommand"
Mixin == "Mixin"
ACommand == "ACommand"
c_function == "c_function"
None == "None"

ClassAttrs(c) ==
    CASE c = BCommand -> {"__init__", "__post_init__", "get"}
      [] c = Mixin -> {"describe"}
      [] c = ACommand -> {"__post_init__", "__call__", "pod"}
      [] OTHER -> {}
Classes == {BCommand, Mixin, ACommand}

\* getattr(typer_command, '_dtyper_dec', typer_command): the command is
\* "raw", the callable made by function / Typer.command is "func"
Resolve(typer_command, f) ==
    IF typer_command = "func" /\ f.dtyper_dec THEN "raw" ELSE typer_command

\* inspect.signature(obj): func answers with its __signature__
SignatureOf(obj, command, f) ==
    IF obj = "raw" THEN command ELSE f.signature

\* (variant: field(default=p.default) for every parameter)
param_to_field_desc_always_default(p) ==
    [name |-> p.name, annotation |-> p.annotation,
     default |-> IF p.default = Empty THEN Value("Parameter.empty")
                 ELSE p.default]

param_to_field_desc(p) ==
    [name |-> p.name, annotation |-> p.annotation, default |-> p.default]

\* [param_to_field_desc(p) for p in _fixed_signature(typer_command)...]
\* (variant: the fields are read from inspect.signature as declared)
FieldsOf_unfixed(params) ==
    [exc |-> NoExc,
     fields |-> [i \in 1..Len(params) |-> param_to_field_desc(params[i])]]

FieldsOf(params) ==
    LET sig == fixed_signature(params)
    IN  [exc |-> sig.exc,
         fields |-> [i \in 1..Len(sig.parameters) |->
                       param_to_field_desc(sig.parameters[i])]]

\* kwargs['bases'] = *kwargs.get('bases', ()), base
\* (variant: base is dropped)
WithBase_ignored(bases, base) == bases

WithBase(bases, base) == IF base # None THEN Append(bases, base) ELSE bases

NoType == [made |-> FALSE, cls_name |-> "", fields |-> <<>>, bases |-> <<>>,
           namespace |-> [k \in {} |-> ""], decorated |-> ""]

\* make_dataclass(cls_name, fields, bases=, namespace=): a field without a
\* default after one with a default is a TypeError
make_dataclass(cls_name, fields, bases, namespace) ==
    LET bad == {j \in 1..Len(fields) :
                   /\ fields[j].default = Empty
                   /\ \E i \in 1..(j - 1) : fields[i].default # Empty}
    IN  IF bad # {}
        THEN [exc |-> Exc("TypeError",
                          "non-default argument follows default argument",
                          fields[Min(bad)].name),
              type |-> NoType]
        ELSE [exc |-> NoExc,
              type |-> [made |-> TRUE, cls_name |-> cls_name,
                        fields |-> fields, bases |-> bases,
                        namespace |-> namespace, decorated |-> ""]]

\* the namespace dataclass_maker works on: ns['typer_command'] is set, and
\* ns['__call__'] when a function is decorated
MakerNamespace(ns, typer_command, function_or_class) ==
    LET keys == DOMAIN ns \cup {"typer_command"} \cup
                (IF function_or_class \in Classes THEN {} ELSE {"__call__"})
    IN  [k \in keys |->
           IF k = "typer_command" THEN typer_command
           ELSE IF k = "__call__" /\ function_or_class \notin Classes
           THEN function_or_class
           ELSE ns[k]]

\* ka['bases'] = *ka.get('bases', ()), function_or_class
MakerBases(bases, function_or_class) ==
    IF function_or_class \in Classes THEN Append(bases, function_or_class)
    ELSE bases

\* attribute lookup on a synthesized type: its own dictionary (what
\* make_dataclass generates and the namespace), then its bases in order
GeneratedAttrs == {"__init__", "__repr__", "__eq__"}
Lookup(type, attr) ==
    LET defining == {i \in 1..Len(type.bases) : attr \in ClassAttrs(type.bases[i])}
    IN  IF attr \in GeneratedAttrs THEN "dataclass"
        ELSE IF attr \in DOMAIN type.namespace THEN type.namespace[attr]
        ELSE IF defining # {} THEN type.bases[Min(defining)]
        ELSE None

\* the parameters of the __init__ that make_dataclass generates
InitParams(fields) ==
    [i \in 1..Len(fields) |->
       [name |-> fields[i].name, annotation |-> fields[i].annotation,
        kind |-> POSITIONAL_OR_KEYWORD, default |-> fields[i].default]]

Event(ev, what) == [ev |-> ev, what |-> what]

\* the generated __init__: every field is assigned in order, then
\* __post_init__ runs if the type has one
DataclassInit(type, locals) ==
    LET sets == [i \in 1..Len(type.fields) |-> Event("set", type.fields[i].name)]
        hook == Lookup(type, "__post_init__")
    IN  sets \o (IF hook # None THEN <<Event("__post_init__", hook)>> ELSE <<>>)

\* type(*args, **kwargs): the events of the construction, in order
Construction(type, args, kwargs) ==
    LET r == PyCall(InitParams(type.fields), args, kwargs)
    IN  IF r.exc # NoExc
        THEN [exc |-> r.exc, fields |-> NoArguments, log |-> <<>>]
        ELSE [exc |-> NoExc, fields |-> r.locals,
              log |-> DataclassInit(type, r.locals)
                      \o <<Event("return", type.cls_name)>>]

CommandName == "a_command"

\* ------------------------------------------------------------- state
VARIABLES
    cmd,        \* the typer command: its declared parameter list
    pc,         \* where the session is
    func,       \* the callable made by function / Typer.command
    exc,        \* the exception that ended the session, [at, e]
    last,       \* the last call of func: its arguments and outcome
    maker,      \* the decorator returned by dataclass(...)
    ns,         \* the dict the caller passed as namespace=, if any
    rtype,      \* the record type the last application of maker produced
    inst        \* the instance constructed from rtype

vars == <<cmd, pc, func, exc, last, maker, ns, rtype, inst>>

NoFunc == [made |-> FALSE, signature |-> <<>>, dtyper_dec |-> FALSE]
NoCall == [called |-> FALSE, args |-> <<>>, kwargs |-> NoArguments,
           exc |-> NoExc, invoked |-> 0, result |-> NoArguments]
NotRaised == [at |-> "", e |-> NoExc]
NoMaker == [made |-> FALSE, variant |-> "", given |-> "", typer_command |-> "",
            base |-> None, callerBases |-> <<>>, bases |-> <<>>,
            hasNamespace |-> FALSE, fields |-> <<>>]
EmptyDict == [k \in {} |-> ""]
NoInstance == [made |-> FALSE, args |-> <<>>, kwargs |-> NoArguments,
               fields |-> NoArguments, log |-> <<>>,
               called |-> FALSE, by |-> None, result |-> NoArguments]

Init ==
    /\ cmd \in Commands
    /\ pc = "start"
    /\ func = NoFunc
    /\ exc = NotRaised
    /\ last = NoCall
    /\ maker = NoMaker
    /\ ns = EmptyDict
    /\ rtype = NoType
    /\ inst = NoInstance

\* function(typer_command): the signature is fixed when decorating
function(typer_command) ==
    LET sig == fixed_signature(typer_command)
    IN  [exc |-> sig.exc,
         func |-> IF sig.exc # NoExc THEN NoFunc
                  ELSE [made |-> TRUE, signature |-> sig.parameters,
                        dtyper_dec |-> FALSE]]

\* @dtyper.function applied to the command
Function ==
    /\ pc = "start"
    /\ LET f == function(cmd)
       IN  /\ func' = f.func
           /\ exc' = IF f.exc # NoExc THEN [at |-> "function", e |-> f.exc]
                     ELSE exc
           /\ pc' = IF f.exc # NoExc THEN "failed" ELSE "rebound"
    /\ UNCHANGED <<cmd, last, maker, ns, rtype, inst>>

\* @dtyper.Typer().command() applied to the command: typer's decorator
\* registers f and returns it, function rebinds it, and the result carries
\* f as _dtyper_dec
TyperCommand ==
    /\ pc = "start"
    /\ LET f == function(cmd)
       IN  /\ func' = IF f.exc # NoExc THEN NoFunc
                      ELSE [f.func EXCEPT !.dtyper_dec = TRUE]
           /\ exc' = IF f.exc # NoExc THEN [at |-> "function", e |-> f.exc]
                     ELSE exc
           /\ pc' = IF f.exc # NoExc THEN "failed" ELSE "rebound"
    /\ UNCHANGED <<cmd, last, maker, ns, rtype, inst>>

\* func(*args, **kwargs); wrapped keeps no state between calls, so a
\* session makes one
Call ==
    /\ pc = "rebound"
    /\ pc' = "called"
    /\ \E args \in CallArgs : \E kwargs \in CallKwargs(Names(cmd) \cup {"frog"}) :
         LET r == wrapped(func.signature, cmd, args, kwargs)
         IN  last' = [called |-> TRUE, args |-> args, kwargs |-> kwargs,
                      exc |-> r.exc, invoked |-> r.invoked, result |-> r.result]
    /\ UNCHANGED <<cmd, func, exc, maker, ns, rtype, inst>>

\* what a caller passes to dataclass(): the command itself or the callable
\* rebound from it; base= (dtyper.py only); bases= and namespace=
MakerConfigs ==
    {c \in [variant : {"dtyper.py", "dtyper/__init__.py"},
            base : {None, BCommand},
            bases : {<<>>, <<Mixin>>, <<Mixin, BCommand>>},
            hasNamespace : BOOLEAN] :
        /\ c.variant = "dtyper/__init__.py" =>
              c.base = None /\ c.bases # <<Mixin>>
        /\ c.variant = "dtyper.py" =>
              /\ c.bases # <<Mixin, BCommand>>
              /\ c.bases = <<Mixin>> => c.base = BCommand}

\* dataclass(typer_command, base, **kwargs).  dtyper.py derives the fields
\* here; dtyper/__init__.py leaves that to dataclass_maker.
Dataclass ==
    /\ pc \in {"start", "rebound"}
    /\ \E c \in MakerConfigs :
         LET given == IF pc = "start" THEN "raw" ELSE "func"
             typer_command == Resolve(given, func)
             f == IF c.variant = "dtyper.py"
                  THEN FieldsOf(SignatureOf(typer_command, cmd, func))
                  ELSE [exc |-> NoExc, fields |-> <<>>]
         IN  IF f.exc # NoExc
             THEN /\ exc' = [at |-> "dataclass", e |-> f.exc]
                  /\ pc' = "failed"
                  /\ UNCHANGED maker
             ELSE /\ maker' = [made |-> TRUE, variant |-> c.variant,
                               given |-> given,
                               typer_command |-> typer_command,
                               base |-> c.base,
                               callerBases |-> c.bases,
                               bases |-> WithBase(c.bases, c.base),
                               hasNamespace |-> c.hasNamespace,
                               fields |-> f.fields]
                  /\ pc' = "maker"
                  /\ UNCHANGED exc
    /\ UNCHANGED <<cmd, func, last, ns, rtype, inst>>

\* dataclass_maker(function_or_class)
DataclassMaker ==
    /\ pc \in {"maker", "type"}
    /\ \E function_or_class \in {c_function, ACommand} :
         LET f == IF maker.variant = "dtyper.py"
                  THEN [exc |-> NoExc, fields |-> maker.fields]
                  ELSE FieldsOf(SignatureOf(Resolve(maker.typer_command, func),
                                            cmd, func))
             namespace == MakerNamespace(IF maker.hasNamespace THEN ns
                                         ELSE EmptyDict,
                                         maker.typer_command, function_or_class)
             made == make_dataclass(CommandName, f.fields,
                                    MakerBases(maker.bases, function_or_class),
                                    namespace)
         IN  IF f.exc # NoExc
             THEN /\ exc' = [at |-> "dataclass_maker", e |-> f.exc]
                  /\ pc' = "failed"
                  /\ UNCHANGED <<ns, rtype>>
             ELSE /\ ns' = IF maker.hasNamespace THEN namespace ELSE ns
                  /\ IF made.exc # NoExc
                     THEN /\ exc' = [at |-> "dataclass_maker", e |-> made.exc]
                          /\ pc' = "failed"
                          /\ UNCHANGED rtype
                     ELSE /\ rtype' = [made.type EXCEPT
                                         !.decorated = function_or_class]
                          /\ pc' = "type"
                          /\ UNCHANGED exc
    /\ UNCHANGED <<cmd, func, last, maker, inst>>

\* rtype(*args, **kwargs)
Construct ==
    /\ pc = "type"
    /\ \E args \in CallArgs : \E kwargs \in CallKwargs(Names(cmd)) :
         LET init == Lookup(rtype, "__init__")
             r == Construction(rtype, args, kwargs)
         IN  IF init # "dataclass"
             THEN /\ exc' = [at |-> "construct",
                             e |-> Exc("AssertionError", "__init__", init)]
                  /\ pc' = "failed"
                  /\ inst' = [NoInstance EXCEPT
                                !.log = <<Event("__init__", init)>>]
             ELSE IF r.exc # NoExc
             THEN /\ exc' = [at |-> "construct", e |-> r.exc]
                  /\ pc' = "failed"
                  /\ UNCHANGED inst
             ELSE /\ inst' = [NoInstance EXCEPT !.made = TRUE,
                                !.args = args, !.kwargs = kwargs,
                                !.fields = r.fields, !.log = r.log]
                  /\ pc' = "instance"
                  /\ UNCHANGED exc
    /\ UNCHANGED <<cmd, func, last, maker, ns, rtype>>

\* inst(): the call body sees the instance as its first argument and
\* returns its fields
Invoke ==
    /\ pc = "instance"
    /\ LET body == Lookup(rtype, "__call__")
       IN  IF body = None
           THEN /\ exc' = [at |-> "invoke",
                           e |-> Exc("TypeError", "object is not callable", "")]
                /\ pc' = "failed"
                /\ UNCHANGED inst
           ELSE /\ inst' = [inst EXCEPT !.called = TRUE, !.by = body,
                                        !.result = inst.fields]
                /\ pc' = "invoked"
                /\ UNCHANGED exc
    /\ UNCHANGED <<cmd, func, last, maker, ns, rtype>>

\* the rebinding path
Next == Function \/ TyperCommand \/ Call

Spec == Init /\ [][Next]_vars

\* the record path
NextRecord == Function \/ TyperCommand \/ Dataclass \/ DataclassMaker
              \/ Construct \/ Invoke

SpecRecord == Init /\ [][NextRecord]_vars


\* ================================================================ claims
\* what the caller wrote for parameter i of the command: positionally, by
\* keyword, or not at all
Supplied(params, i, args, kwargs) ==
    i <= Len(args) \/ params[i].name \in DOMAIN kwargs

\* the real default behind a declared default: the descriptor's inner
\* default, or the plain default itself
InnerDefault(d) == IF IsDescriptor(d) THEN Value(d.v) ELSE d

\* the original called with the supplied values, and the inner default
\* substituted for every parameter left out
Substituted(params, args, kwargs) ==
    [nm \in Names(params) |->
       LET i == IndexOf(params, nm)
       IN  IF i <= Len(args) THEN args[i]
           ELSE IF nm \in DOMAIN kwargs THEN kwargs[nm]
           ELSE InnerDefault(params[i].default)]

\* the call of func bound against the normalized signature
LastBinds == SigBind(func.signature, last.args, last.kwargs).exc = NoExc

\* C1: a call of the rebound callable that binds against the normalized
\* signature runs the original exactly once and returns what the original
\* returns for the supplied values with the inner (or plain) default
\* substituted for every omitted parameter.
C1_RebindSubstitutesDefaults ==
    (last.called /\ LastBinds) =>
        /\ last.invoked = 1
        /\ last.exc = NoExc
        /\ last.result = Substituted(cmd, last.args, last.kwargs)

\* the call of test_simple_command: the required argument positionally, an
\* option by keyword, and an Argument('keys') left to its inner default
C1_Witness ==
    /\ last.called /\ last.invoked = 1
    /\ Len(last.args) = 1
    /\ \E i \in 2..Len(cmd) :
         /\ cmd[i].default = Argument("keys")
         /\ ~Supplied(cmd, i, last.args, last.kwargs)
         /\ last.result[cmd[i].name] = Value("keys")

\* the faults of a call against the normalized signature
UnexpectedKeywords == DOMAIN last.kwargs \ Names(func.signature)
PositionalCount ==
    Cardinality({i \in 1..Len(func.signature) :
                    func.signature[i].kind = POSITIONAL_OR_KEYWORD})
TooManyPositional == Len(last.args) > PositionalCount
OmittedRequired ==
    {func.signature[i].name : i \in {j \in 1..Len(func.signature) :
        /\ func.signature[j].default = Empty
        /\ ~(j <= Len(last.args) /\ j <= PositionalCount)
        /\ func.signature[j].name \notin DOMAIN last.kwargs}}
GivenTwice ==
    {func.signature[i].name : i \in {j \in 1..Len(func.signature) :
        /\ j <= Len(last.args)
        /\ func.signature[j].name \in DOMAIN last.kwargs}}

\* C2: a call with an unexpected keyword, too many positional arguments or
\* a required parameter omitted fails with a TypeError and never runs the
\* original; the error names a fault the call has (the keyword, the
\* positional count, the missing parameter), and names that very fault
\* when it is the call's only one.
C2_BindingErrors ==
    last.called =>
        /\ (UnexpectedKeywords # {} \/ TooManyPositional \/ OmittedRequired # {})
              => (last.exc.cls = "TypeError" /\ last.invoked = 0)
        /\ last.exc.msg = "got an unexpected keyword argument"
              => last.exc.arg \in UnexpectedKeywords
        /\ last.exc.msg = "too many positional arguments"
              => TooManyPositional
        /\ last.exc.msg = "missing a required argument"
              => last.exc.arg \in OmittedRequired
        /\ (UnexpectedKeywords # {} /\ ~TooManyPositional
            /\ OmittedRequired = {} /\ GivenTwice = {})
              => last.exc.msg = "got an unexpected keyword argument"
        /\ (TooManyPositional /\ GivenTwice = {})
              => last.exc.msg = "too many positional arguments"
        /\ (OmittedRequired # {} /\ ~TooManyPositional /\ GivenTwice = {})
              => last.exc.msg = "missing a required argument"

\* test_less_simple_command_error: a required Option left out after the
\* positional arguments were given
C2_Witness ==
    /\ last.called /\ last.invoked = 0
    /\ Len(last.args) = 1
    /\ \E i \in 2..Len(cmd) :
         /\ cmd[i].default = Option("Ellipsis")
         /\ last.exc = Exc("TypeError", "missing a required argument",
                           cmd[i].name)

\* C3: the normalized signature keeps every parameter, in order and under
\* its name; its default is the descriptor's inner default or the plain
\* default unchanged, and there is none when that value is Ellipsis.
C3_NormalizedDefaults ==
    func.made =>
        /\ Len(func.signature) = Len(cmd)
        /\ \A i \in 1..Len(cmd) :
             /\ func.signature[i].name = cmd[i].name
             /\ func.signature[i].default =
                  IF InnerDefault(cmd[i].default) = Ellipsis THEN Empty
                  ELSE InnerDefault(cmd[i].default)

C3_Witness ==
    /\ func.made
    /\ \E i \in 1..Len(cmd) : \E j \in 1..Len(cmd) :
         /\ cmd[i].default = Argument("Ellipsis")
         /\ func.signature[i].default = Empty
         /\ cmd[j].default = Option("None")
         /\ func.signature[j].default = Value("None")

\* C4: in the normalized signature a parameter declared with an Option is
\* keyword-only whatever its kind was, every other parameter keeps its
\* kind, and no call that binds gives an Option its value positionally.
C4_OptionsKeywordOnly ==
    /\ func.made =>
         \A i \in 1..Len(cmd) :
            func.signature[i].kind =
               IF cmd[i].default.cls = "OptionInfo" THEN KEYWORD_ONLY
               ELSE cmd[i].kind
    /\ (last.called /\ last.exc = NoExc) =>
         \A i \in 1..Len(cmd) :
            cmd[i].default.cls = "OptionInfo" => i > Len(last.args)

\* test_args: the positional arguments reach an Option declared
\* positional-or-keyword, and the call is refused
C4_Witness ==
    /\ last.called
    /\ \E i \in 1..Len(cmd) :
         /\ cmd[i].default.cls = "OptionInfo"
         /\ cmd[i].kind = POSITIONAL_OR_KEYWORD
         /\ func.signature[i].kind = KEYWORD_ONLY
         /\ Len(last.args) = i
         /\ last.exc.msg = "too many positional arguments"
         /\ \E j \in 1..(i - 1) :
              /\ cmd[j].default.cls = "ArgumentInfo"
              /\ func.signature[j].kind = POSITIONAL_OR_KEYWORD


\* ------------------------------------------------------- record claims
Required(p) == InnerDefault(p.default) \in {Empty, Ellipsis}

\* the command's normalized field list has a required field after a field
\* with a default
RequiredAfterOptional ==
    \E i \in 1..Len(cmd) : \E j \in 1..Len(cmd) :
        i < j /\ ~Required(cmd[i]) /\ Required(cmd[j])

Synthesizing == exc.at \in {"dataclass", "dataclass_maker"}

\* C5 as claimed: a required field after an optional one makes record
\* synthesis fail at decoration time with a ValueError-class error; no
\* type is produced and nothing is constructed.
C5_OrderFailsWithValueError ==
    RequiredAfterOptional =>
        /\ ~rtype.made /\ ~inst.made
        /\ pc \notin {"type", "instance", "invoked"}
        /\ Synthesizing => exc.e.cls = "ValueError"

\* C5 amended: a required field after an optional one makes record
\* synthesis fail at decoration time, no later than the application of the
\* decorator: with the ValueError of signature normalization when the
\* normalized signature itself is out of order, else with the TypeError of
\* make_dataclass ("non-default argument follows default argument"); no
\* type is produced, nothing is constructed, and a type that is produced
\* has its fields in declaration order.
C5_OrderFailsAtDecoration ==
    /\ RequiredAfterOptional =>
         /\ ~rtype.made /\ ~inst.made
         /\ pc \notin {"type", "instance", "invoked"}
         /\ exc.at # "construct"
         /\ Synthesizing =>
              \/ /\ exc.e.cls = "ValueError"
                 /\ SignatureError(FixedParameters(cmd)) = exc.e
              \/ /\ exc.e.cls = "TypeError"
                 /\ exc.at = "dataclass_maker"
                 /\ exc.e.msg = "non-default argument follows default argument"
                 /\ SignatureError(FixedParameters(cmd)) = NoExc
    /\ rtype.made =>
         /\ Len(rtype.fields) = Len(cmd)
         /\ \A i \in 1..Len(cmd) : rtype.fields[i].name = cmd[i].name

\* the spec's scenario: a required Option declared after an optional
\* Argument, refused when the decorator is applied
C5_Witness ==
    /\ RequiredAfterOptional
    /\ exc.at = "dataclass_maker"
    /\ exc.e.cls = "TypeError"
    /\ \E i \in 1..Len(cmd) : \E j \in 1..Len(cmd) :
         /\ i < j
         /\ cmd[i].default = Argument("keys")
         /\ cmd[j].default = Option("Ellipsis")
         /\ exc.e.arg = cmd[j].name

C7_TyperCommandIsOriginal ==
    rtype.made => rtype.namespace["typer_command"] = "raw"

\* C8: the record synthesized from the rebound form of a command has the
\* field list of the record synthesized from the command itself: required
\* where the command's parameter is required, and with the same default
\* where it is optional.
C8_DoubleDecorationSameFields ==
    (rtype.made /\ maker.given = "func") =>
        LET direct == FieldsOf(cmd)
        IN  /\ direct.exc = NoExc
            /\ make_dataclass(CommandName, direct.fields, <<>>, EmptyDict).exc
                  = NoExc
            /\ rtype.fields = direct.fields
            /\ \A i \in 1..Len(cmd) :
                  rtype.fields[i].default =
                     IF Required(cmd[i]) THEN Empty
                     ELSE InnerDefault(cmd[i].default)

\* a record made from the callable that function returns (no _dtyper_dec),
\* for a command with a required and an optional descriptor
C8_Witness ==
    /\ rtype.made /\ maker.given = "func" /\ ~func.dtyper_dec
    /\ maker.typer_command = "func"
    /\ \E i \in 1..Len(cmd) : \E j \in 1..Len(cmd) :
         /\ cmd[i].default = Argument("Ellipsis")
         /\ rtype.fields[i].default = Empty
         /\ cmd[j].default = Option("None")
         /\ rtype.fields[j].default = Value("None")

\* the events of the construction, by kind
LogIndex(ev) == {i \in 1..Len(inst.log) : inst.log[i].ev = ev}

BaseRequested == maker.base = BCommand \/ BCommand \in
                    {maker.callerBases[i] : i \in 1..Len(maker.callerBases)}

\* C9: constructing a record synthesized with the base BCommand never runs
\* the base's constructor; its __post_init__ runs exactly once, after every
\* field is assigned and before the instance is returned.
C9_BaseHookNotConstructor ==
    (maker.made /\ BaseRequested) =>
        /\ LogIndex("__init__") = {}
        /\ exc.e.cls # "AssertionError"
        /\ inst.made =>
             /\ Cardinality(LogIndex("__post_init__")) = 1
             /\ Cardinality(LogIndex("set")) = Len(cmd)
             /\ \A i \in 1..Len(cmd) :
                  \E k \in LogIndex("set") : inst.log[k].what = cmd[i].name
             /\ Cardinality(LogIndex("return")) = 1
             /\ \A h \in LogIndex("__post_init__") :
                  /\ inst.log[h].what = BCommand
                  /\ \A k \in LogIndex("set") : k < h
                  /\ \A r \in LogIndex("return") : h < r /\ r = Len(inst.log)

\* test_inheritance: dataclass(a_command, BCommand) applied to a function,
\* constructed with the required field and invoked
C9_Witness ==
    /\ inst.called
    /\ maker.base = BCommand
    /\ rtype.decorated = c_function
    /\ Len(cmd) >= 2
    /\ LogIndex("__post_init__") = {Len(cmd) + 1}

\* C10: applied to a class, the decorator makes a type whose bases are the
\* caller's bases, then the requested base, then the class, with no call
\* body in its namespace; applied to a function, it installs the function
\* as __call__ and leaves it out of the bases.
C10_MergeIsExclusive ==
    rtype.made =>
        LET before == maker.callerBases \o
                      (IF maker.base # None THEN <<maker.base>> ELSE <<>>)
        IN  IF rtype.decorated \in Classes
            THEN /\ rtype.bases = Append(before, rtype.decorated)
                 /\ "__call__" \notin DOMAIN rtype.namespace
            ELSE /\ rtype.bases = before
                 /\ "__call__" \in DOMAIN rtype.namespace
                 /\ rtype.namespace["__call__"] = rtype.decorated

\* a required parameter of the command that the last call left out
LeftOutRequired ==
    {i \in 1..Len(cmd) :
        Required(cmd[i]) /\ ~Supplied(cmd, i, last.args, last.kwargs)}

\* C11: normalization and rebinding enforce no ordering: whatever the
\* order of required and optional, keyword-style and positional-style
\* parameters, function succeeds when decorating, a call that leaves a
\* required parameter out fails, and a call that supplies them succeeds.
C11_NoOrderingEnforced ==
    /\ exc.at # "function"
    /\ pc # "start" => func.made
    /\ last.called =>
         /\ LeftOutRequired # {} => last.exc.cls = "TypeError"
         /\ (/\ LeftOutRequired = {}
             /\ UnexpectedKeywords = {}
             /\ ~TooManyPositional
             /\ GivenTwice = {}) => (last.exc = NoExc /\ last.invoked = 1)

\* the namespace of a type made from this application's inputs alone: the
\* caller's dict as it was passed (empty), the command, and the call body
\* if a function is decorated
OwnNamespace ==
    MakerNamespace(EmptyDict, maker.typer_command, rtype.decorated)

\* C12: decorations share no state: every synthesized type comes from the
\* inputs of its own application alone - no call body of an earlier
\* application to a function shows in a type made from a class - and the
\* dict the caller passed as namespace= is left as it was.
C12_NoSharedState ==
    /\ ns = EmptyDict
    /\ rtype.made =>
         /\ rtype.namespace = OwnNamespace
         /\ rtype.decorated \in Classes =>
              Lookup(rtype, "__call__") = rtype.decorated

====
